---- MODULE Spec2Model ----
(***************************************************************************)
(* Model of the admin panel's data layer and route table:                  *)
(*   - utils/dataUtils.ts     : the party cache (processPartiesData,       *)
(*                              getPartyById, getPartyColor)               *)
(*   - services/policyService : convertToPolicyObject and                  *)
(*                              fetchPoliciesWithFilterAndSort             *)
(*   - layout/AppContent.tsx  : the route table                            *)
(* Each subsystem has its own specification over the module's variables;   *)
(* the variables of the other subsystems stay at their initial values.     *)
(*                                                                         *)
(* Conventions.  An optional document field is <<>> when it is absent and  *)
(* <<v>> when it is present with value v.  JavaScript strings that the     *)
(* code only compares or passes on are TLA+ strings (Japanese literals are *)
(* romanised, the original is named in the comment beside them); strings   *)
(* the code lower-cases and searches are sequences of one-letter strings.  *)
(***************************************************************************)
EXTENDS Integers, Sequences, FiniteSets

VARIABLES
    cachedParties,  \* dataUtils.ts: the module-level cache (Null or a list)
    calls,          \* dataUtils.ts: the calls of processPartiesData / getPartyById
    fetchCount,     \* dataUtils.ts: number of getDocs(parties) issued so far
    lastFetched,    \* dataUtils.ts: snapshot of the last getDocs that succeeded
    cvDoc,          \* policyService.ts: the document data given to convertToPolicyObject
    cvPolicy,       \* policyService.ts: <<>> or <<the Policy it returned>>
    fpDb,           \* policyService.ts: ids of the documents in the policy collection
    fpReq,          \* policyService.ts: arguments of fetchPoliciesWithFilterAndSort
    fpPc,           \* policyService.ts: where the call is
    fpStartAfter,   \* policyService.ts: <<>> or <<id>> of the startAfter constraint
    fpRaw,          \* policyService.ts: ids of querySnapshot.docs, in order
    fpResult,       \* policyService.ts: <<>> or <<the page returned>>
    fpFailed,       \* policyService.ts: the database reads of the call that failed
    rtAuth,         \* AppContent.tsx: the visitor is authenticated
    rtTrail,        \* AppContent.tsx: the locations of the visit, the current one last
    rtView          \* AppContent.tsx: what is rendered ("pending" before it is)

partyVars == <<cachedParties, calls, fetchCount, lastFetched>>

convertVars == <<cvDoc, cvPolicy>>

fetchVars == <<fpDb, fpReq, fpPc, fpStartAfter, fpRaw, fpResult, fpFailed>>

routeVars == <<rtAuth, rtTrail, rtView>>

vars == <<partyVars, convertVars, fetchVars, routeVars>>

----------------------------------------------------------------------------
(* Bounds *)

MaxCalls == 2       \* calls of the party utility in one behaviour
MaxDocs == 2        \* documents the parties collection can hold
MaxRate == 7        \* largest SupportRate / NonSupportRate of a policy document
MaxPolicies == 3    \* documents the policy collection can hold
MaxLimit == 2       \* largest limitCount of a call
MaxSegments == 3    \* segments of a path a visitor enters
MaxHops == 4        \* locations one visit may pass through

----------------------------------------------------------------------------
(* JavaScript values *)

\* null for the cache: the cache is <<>> when unset and <<list>> when set
Null == <<>>
Undefined == "undefined"

\* `f || d` for an optional number: undefined and 0 are falsy
NumOr(f, d) == IF f = <<>> THEN d ELSE IF f[1] = 0 THEN d ELSE f[1]

\* `f || d` for an optional string or list: undefined and "" are falsy;
\* a list, the empty one included, is truthy
StrOr(f, d) == IF f = <<>> THEN d ELSE IF f[1] = "" THEN d ELSE f[1]
ListOr(f, d) == IF f = <<>> THEN d ELSE f[1]

\* Math.round((a / t) * 100) for integers 0 <= a <= t, t > 0: round half up.
\* The double arithmetic of the code gives the same integer as this exact
\* computation for every a and t the model uses (counts and rates up to 50).
RoundPct(a, t) == (200 * a + t) \div (2 * t)

\* The elements of a finite set of integers in increasing order
RECURSIVE SortedSeq(_)
SortedSeq(S) ==
    IF S = {} THEN <<>>
    ELSE LET m == CHOOSE x \in S : \A y \in S : x <= y
         IN <<m>> \o SortedSeq(S \ {m})

----------------------------------------------------------------------------
(* utils/dataUtils.ts *)

\* getPartyColor: the static table, gray for any other name
getPartyColor(affiliation) ==
    CASE affiliation = "Jiyuminshuto" -> "#555555"
      [] affiliation = "Rikkenminshuto" -> "#4361EE"
      [] affiliation = "Komeito" -> "#7209B7"
      [] affiliation = "NipponIshinNoKai" -> "#228B22"
      [] affiliation = "Kokuminminshuto" -> "#000080"
      [] affiliation = "NihonKyosanto" -> "#E63946"
      [] affiliation = "ReiwaShinsengumi" -> "#F72585"
      [] affiliation = "Shaminto" -> "#118AB2"
      [] affiliation = "Sanseito" -> "#FF4500"
      [] OTHER -> "#808080"

\* getPartyImagePath: the path is built from the name; encodeURIComponent of a
\* missing name is the text "undefined"
getPartyImagePath(partyName) ==
    <<"/cm_parly_images/", "urlencoded", partyName, ".jpg">>

\* The document of the parties collection with id i (doc.data()).  The ids
\* cover: votes that round at .5, no vote fields at all, a zero support count,
\* a missing name.
PartyDoc(i) ==
    CASE i = 1 -> [name |-> <<"Jiyuminshuto">>, supportCount |-> <<1>>,
                   oppositionCount |-> <<7>>, memberCount |-> <<3>>,
                   majorPolicies |-> <<<<"p1">>>>, overview |-> <<"o1">>]
      [] i = 2 -> [name |-> <<"Mushozoku">>, supportCount |-> <<>>,
                   oppositionCount |-> <<>>, memberCount |-> <<>>,
                   majorPolicies |-> <<>>, overview |-> <<>>]
      [] i = 3 -> [name |-> <<"Komeito">>, supportCount |-> <<0>>,
                   oppositionCount |-> <<3>>, memberCount |-> <<0>>,
                   majorPolicies |-> <<<<>>>>, overview |-> <<"">>]
      [] OTHER -> [name |-> <<>>, supportCount |-> <<i>>,
                   oppositionCount |-> <<0>>, memberCount |-> <<i>>,
                   majorPolicies |-> <<>>, overview |-> <<>>]

DocIds == 1 .. MaxDocs

\* What getDocs(parties) can return: the documents of any subset of the ids
Snapshots == SUBSET DocIds

\* The body of partiesSnapshot.docs.map: one document to one Party
TransformParty(i) ==
    LET data == PartyDoc(i)
        partyName == IF data.name = <<>> THEN Undefined ELSE data.name[1]
        totalVotes == NumOr(data.supportCount, 0) + NumOr(data.oppositionCount, 0)
        supportRate == IF totalVotes > 0
                       THEN RoundPct(NumOr(data.supportCount, 0), totalVotes)
                       ELSE 50
    IN [id |-> i,
        name |-> data.name,
        color |-> getPartyColor(partyName),
        supportRate |-> supportRate,
        opposeRate |-> 100 - supportRate,
        totalVotes |-> totalVotes,
        members |-> NumOr(data.memberCount, 0),
        keyPolicies |-> ListOr(data.majorPolicies, <<>>),
        description |-> IF StrOr(data.overview, "") = ""
                        THEN <<partyName, "no-seisaku-to-rinen">>
                        ELSE <<data.overview[1]>>,
        image |-> getPartyImagePath(partyName)]

\* partiesSnapshot.docs.map(...) over a whole snapshot, in document order
TransformSnapshot(snap) ==
    LET ids == SortedSeq(snap)
    IN [k \in 1 .. Len(ids) |-> TransformParty(ids[k])]

\* A lookup that returns the first cached party whatever its id
FindPartyFirst(cache, id) ==
    IF cache = Null THEN <<>>
    ELSE IF cache[1] = <<>> THEN <<>> ELSE <<cache[1][1]>>

\* (cachedParties || []).find((party) => party.id === id): <<>> is undefined,
\* <<p>> is the party found
FindParty(cache, id) ==
    LET src == IF cache = Null THEN <<>> ELSE cache[1]
        hits == {k \in 1 .. Len(src) : src[k].id = id}
    IN IF hits = {} THEN <<>>
       ELSE <<src[CHOOSE k \in hits : \A j \in hits : k <= j]>>

CallIds == 1 .. MaxCalls
LookupIds == 1 .. (MaxDocs + 1)

\* A call that has not started.  alone, sawSet, fetched, outcome and seen record
\* what the call met: whether no other call was in flight and whether the cache
\* was set when it started, whether it issued a getDocs, how its getDocs ended
\* ("hit" when there was none), and the cache it returned from.
IdleCall ==
    [pc |-> "idle", op |-> "none", id |-> 0, res |-> <<>>, alone |-> FALSE,
     sawSet |-> FALSE, fetched |-> FALSE, outcome |-> "none", seen |-> Null]

InFlight(c) == calls[c].pc \in {"await", "resume"}

\* The variables of the other subsystems
notPartyVars == <<convertVars, fetchVars, routeVars>>

PartyInit ==
    /\ cachedParties = Null
    /\ calls = [c \in CallIds |-> IdleCall]
    /\ fetchCount = 0
    /\ lastFetched = {}

\* `if (cachedParties !== null)` of processPartiesData
CacheHitNonEmpty(cache) == cache # Null /\ cache[1] # <<>>
CacheHit(cache) == cache # Null

\* `if (!cachedParties)` of getPartyById: a list, the empty one included, is truthy
CacheMissing(cache) == cache = Null

\* `cachedParties = parties`
StorePartiesAppend(old, parties) ==
    IF old = Null THEN <<parties>> ELSE <<old[1] \o parties>>
StoreParties(old, parties) == <<parties>>

\* The catch block of processPartiesData: the cache is not touched and the
\* call returns []
CacheAfterErrorEmpty(old) == <<<<>>>>
CacheAfterError(old) == old

ResultAfterError == <<>>

\* A call may start once every earlier call has started
CanStart(c) ==
    /\ calls[c].pc = "idle"
    /\ \A d \in CallIds : d < c => calls[d].pc # "idle"

\* The call record as a call starts
Started(c, op, id) ==
    [calls[c] EXCEPT !.op = op, !.id = id,
                     !.alone = (\A d \in CallIds : ~InFlight(d)),
                     !.sawSet = (cachedParties # Null)]

\* processPartiesData(), up to its return or its await
CallProcess(c) ==
    /\ CanStart(c)
    /\ IF CacheHit(cachedParties)
       THEN /\ calls' = [calls EXCEPT ![c] =
                  [Started(c, "process", 0) EXCEPT
                      !.pc = "done", !.res = cachedParties[1],
                      !.outcome = "hit", !.seen = cachedParties]]
            /\ UNCHANGED fetchCount
       ELSE /\ calls' = [calls EXCEPT ![c] =
                  [Started(c, "process", 0) EXCEPT
                      !.pc = "await", !.fetched = TRUE]]
            /\ fetchCount' = fetchCount + 1
    /\ UNCHANGED <<cachedParties, lastFetched>>
    /\ UNCHANGED notPartyVars

\* getPartyById(id), up to its return or the await inside processPartiesData.
\* processPartiesData tests the cache again at once, with the same answer.
CallGetById(c, id) ==
    /\ CanStart(c)
    /\ IF CacheMissing(cachedParties) /\ ~CacheHit(cachedParties)
       THEN /\ calls' = [calls EXCEPT ![c] =
                  [Started(c, "getById", id) EXCEPT
                      !.pc = "await", !.fetched = TRUE]]
            /\ fetchCount' = fetchCount + 1
       ELSE /\ calls' = [calls EXCEPT ![c] =
                  [Started(c, "getById", id) EXCEPT
                      !.pc = "done", !.res = FindParty(cachedParties, id),
                      !.outcome = "hit", !.seen = cachedParties]]
            /\ UNCHANGED fetchCount
    /\ UNCHANGED <<cachedParties, lastFetched>>
    /\ UNCHANGED notPartyVars

\* getDocs resolves: the snapshot is transformed and cached; processPartiesData
\* returns the list, getPartyById is resumed later
FetchOk(c, snap) ==
    /\ calls[c].pc = "await"
    /\ LET parties == TransformSnapshot(snap)
           cache == StoreParties(cachedParties, parties)
       IN /\ cachedParties' = cache
          /\ calls' = [calls EXCEPT ![c] =
                IF calls[c].op = "process"
                THEN [@ EXCEPT !.pc = "done", !.res = parties,
                               !.outcome = "ok", !.seen = cache]
                ELSE [@ EXCEPT !.pc = "resume", !.outcome = "ok"]]
    /\ lastFetched' = snap
    /\ UNCHANGED fetchCount
    /\ UNCHANGED notPartyVars

\* getDocs rejects: the error is logged and swallowed
FetchFail(c) ==
    /\ calls[c].pc = "await"
    /\ LET cache == CacheAfterError(cachedParties)
       IN /\ cachedParties' = cache
          /\ calls' = [calls EXCEPT ![c] =
                IF calls[c].op = "process"
                THEN [@ EXCEPT !.pc = "done", !.res = ResultAfterError,
                               !.outcome = "fail", !.seen = cache]
                ELSE [@ EXCEPT !.pc = "resume", !.outcome = "fail"]]
    /\ UNCHANGED <<fetchCount, lastFetched>>
    /\ UNCHANGED notPartyVars

\* getPartyById continues after `await processPartiesData()`
ResumeGetById(c) ==
    /\ calls[c].pc = "resume"
    /\ calls' = [calls EXCEPT ![c] =
          [@ EXCEPT !.pc = "done", !.res = FindParty(cachedParties, calls[c].id),
                    !.seen = cachedParties]]
    /\ UNCHANGED <<cachedParties, fetchCount, lastFetched>>
    /\ UNCHANGED notPartyVars

PartyNext ==
    \/ \E c \in CallIds : CallProcess(c)
    \/ \E c \in CallIds, id \in LookupIds : CallGetById(c, id)
    \/ \E c \in CallIds, snap \in Snapshots : FetchOk(c, snap)
    \/ \E c \in CallIds : FetchFail(c)
    \/ \E c \in CallIds : ResumeGetById(c)

----------------------------------------------------------------------------
(* services/policyService.ts: convertToPolicyObject *)

\* A string the code searches is a sequence of letters; `f || d` for an
\* optional one: undefined and "" are falsy
TextOr(f, d) == IF f = <<>> THEN d ELSE IF f[1] = <<>> THEN d ELSE f[1]

\* The literals of convertToPolicyObject (lines 80-90)
UnknownTitle == <<"fumei-na-taitoru">>      \* line 86
NoDescription == <<"setsumei-nashi">>       \* line 87
OtherCategory == "sonota"                   \* line 88
UnderDeliberation == "shingichu"            \* line 89
DefaultProposedDate == "2023-nen"           \* line 90
UnknownParty == "fumei"                     \* line 80
Gray == "#808080"                           \* lines 81, 119

\* getPartyColor of policyService.ts: its own table, gray for any other name
getPartyColorOfPolicy(partyName) ==
    CASE partyName = "Jiyuminshuto" -> "#E60012"
      [] partyName = "Rikkenminshuto" -> "#FFD900"
      [] partyName = "NipponIshinNoKai" -> "#FF4500"
      [] partyName = "Komeito" -> "#00A0E9"
      [] partyName = "Kokuminminshuto" -> "#009944"
      [] partyName = "NihonKyosanto" -> "#A40000"
      [] partyName = "ReiwaShinsengumi" -> "#800080"
      [] partyName = "Shakaiminshuto" -> "#800000"
      [] OTHER -> Gray

\* trendOptions[Math.floor(Math.random() * 3)]
trendOptions == <<"up", "down", "none">>
RandomIndexes == 0 .. 2

\* The rate a document's SupportRate / NonSupportRate field stands for
\* (lines 46-47): `data.SupportRate || 50`
RateOrDefault(f) == NumOr(f, 50)

\* The normalized oppose rate (lines 53-54), rounded on its own
NormalizedOppose(opposeRate, totalVotes) ==
    IF totalVotes > 0 THEN RoundPct(opposeRate, totalVotes) ELSE 50

\* convertToPolicyObject(id, data); rnd is the value Math.random() yields
convertToPolicyObject(id, data, rnd) ==
    LET supportRate == RateOrDefault(data.SupportRate)
        opposeRate == RateOrDefault(data.NonSupportRate)
        totalVotes == supportRate + opposeRate
        normalizedSupportRate ==
            IF totalVotes > 0 THEN RoundPct(supportRate, totalVotes) ELSE 50
        normalizedOpposeRate == NormalizedOppose(opposeRate, totalVotes)
        trending ==
            IF normalizedSupportRate > 60 THEN "up"
            ELSE IF normalizedSupportRate < 40 THEN "down"
            ELSE trendOptions[rnd + 1]
        politicalParties ==
            IF data.PoliticalParties = <<>> THEN <<>>
            ELSE [k \in 1 .. Len(data.PoliticalParties[1]) |->
                    [partyName |-> data.PoliticalParties[1][k].PartyName,
                     claims |-> data.PoliticalParties[1][k].Claims]]
        proposingParty ==
            IF Len(politicalParties) > 0
            THEN [name |-> politicalParties[1].partyName,
                  color |-> getPartyColorOfPolicy(politicalParties[1].partyName)]
            ELSE [name |-> UnknownParty, color |-> Gray]
        firstField ==
            IF data.AffectedFields = <<>> THEN <<>>
            ELSE IF data.AffectedFields[1] = <<>> THEN <<>>
            ELSE <<data.AffectedFields[1][1]>>
    IN [id |-> id,
        title |-> TextOr(data.Title, UnknownTitle),
        description |-> TextOr(data.Description, NoDescription),
        category |-> StrOr(firstField, OtherCategory),
        status |-> StrOr(data.Status, UnderDeliberation),
        proposedDate |-> StrOr(data.ProposedDate, DefaultProposedDate),
        supportRate |-> normalizedSupportRate,
        opposeRate |-> normalizedOpposeRate,
        totalVotes |-> totalVotes,
        trending |-> trending,
        totalCommentCount |-> data.totalCommentCount,
        proposingParty |-> proposingParty,
        affectedFields |-> ListOr(data.AffectedFields, <<>>),
        keyPoints |-> ListOr(data.KeyPoints, <<>>),
        economicImpact |-> StrOr(data.EconomicImpact, ""),
        lifeImpact |-> StrOr(data.LifeImpact, ""),
        politicalParties |-> politicalParties]

\* The values a policy document's fields are drawn from: absent, present and
\* falsy, present
RateValues == {<<>>} \cup {<<r>> : r \in 0 .. MaxRate}
TitleValues == {<<>>, <<<<>>>>, <<<<"T", "a", "x">>>>}
DescriptionValues == {<<>>, <<<<>>>>, <<<<"c", "u", "t">>>>}
StatusValues == {<<>>, <<"">>, <<"kaketsu">>}
AffectedFieldsValues == {<<>>, <<<<>>>>, <<<<"keizai", "fukushi">>>>}
PoliticalPartiesValues ==
    {<<>>, <<<<>>>>,
     <<<<[PartyName |-> "Komeito", Claims |-> "sansei"],
         [PartyName |-> "Mushozoku", Claims |-> "hantai"]>>>>}

\* The remaining fields of a document, all absent or all present
RestOfDoc(present) ==
    IF present
    THEN [ProposedDate |-> <<"2024-nen">>, totalCommentCount |-> <<4>>,
          KeyPoints |-> <<<<"k1">>>>, EconomicImpact |-> <<"e1">>,
          LifeImpact |-> <<"l1">>]
    ELSE [ProposedDate |-> <<>>, totalCommentCount |-> <<>>,
          KeyPoints |-> <<>>, EconomicImpact |-> <<>>, LifeImpact |-> <<>>]

PolicyData(sr, nsr, title, desc, status, fields, parties, rest) ==
    [SupportRate |-> sr, NonSupportRate |-> nsr, Title |-> title,
     Description |-> desc, Status |-> status, AffectedFields |-> fields,
     PoliticalParties |-> parties,
     ProposedDate |-> RestOfDoc(rest).ProposedDate,
     totalCommentCount |-> RestOfDoc(rest).totalCommentCount,
     KeyPoints |-> RestOfDoc(rest).KeyPoints,
     EconomicImpact |-> RestOfDoc(rest).EconomicImpact,
     LifeImpact |-> RestOfDoc(rest).LifeImpact]

ConvertDocs ==
    {PolicyData(sr, nsr, t, d, st, f, pp, rest) :
        sr \in RateValues, nsr \in RateValues, t \in TitleValues,
        d \in DescriptionValues, st \in StatusValues,
        f \in AffectedFieldsValues, pp \in PoliticalPartiesValues,
        rest \in BOOLEAN}

\* The document convertToPolicyObject is idle on in the other subsystems
NoDoc == PolicyData(<<>>, <<>>, <<>>, <<>>, <<>>, <<>>, <<>>, FALSE)

ConvertIdle ==
    /\ cvDoc = NoDoc
    /\ cvPolicy = <<>>

notConvertVars == <<partyVars, fetchVars, routeVars>>

ConvertInit ==
    /\ cvDoc \in ConvertDocs
    /\ cvPolicy = <<>>

\* One call of convertToPolicyObject on the document
Convert(rnd) ==
    /\ cvPolicy = <<>>
    /\ cvPolicy' = <<convertToPolicyObject("doc", cvDoc, rnd)>>
    /\ UNCHANGED cvDoc
    /\ UNCHANGED notConvertVars

ConvertNext == \E rnd \in RandomIndexes : Convert(rnd)

----------------------------------------------------------------------------
(* services/policyService.ts: fetchPoliciesWithFilterAndSort *)

\* toLowerCase, letter by letter
LowerLetter(ch) ==
    CASE ch = "T" -> "t"
      [] ch = "A" -> "a"
      [] ch = "X" -> "x"
      [] ch = "C" -> "c"
      [] OTHER -> ch

toLowerCase(text) == [k \in 1 .. Len(text) |-> LowerLetter(text[k])]

\* text.includes(sub)
includes(text, sub) ==
    \E k \in 0 .. Len(text) :
        /\ k + Len(sub) <= Len(text)
        /\ \A j \in 1 .. Len(sub) : text[k + j] = sub[j]

\* searchTerm.trim() is truthy: some letter is not white space
TrimmedNonEmpty(text) == \E k \in 1 .. Len(text) : text[k] # " "

\* The document of the policy collection with id i.  The ids cover: a title
\* and a description a search finds, missing texts, equal SupportRate values,
\* a document without the field the query orders by.
PolicyDoc(i) ==
    CASE i = 1 -> PolicyData(<<7>>, <<1>>, <<<<"T", "a", "x">>>>,
                             <<<<"c", "u", "t">>>>, <<"kaketsu">>,
                             <<<<"keizai", "fukushi">>>>, <<>>, TRUE)
      [] i = 2 -> PolicyData(<<4>>, <<5>>, <<>>, <<<<>>>>, <<>>,
                             <<<<"fukushi">>>>, <<>>, FALSE)
      [] i = 3 -> PolicyData(<<4>>, <<>>, <<<<"t", "a", "x", "i">>>>, <<>>,
                             <<"">>, <<<<"keizai">>>>, <<>>, FALSE)
      [] OTHER -> PolicyData(<<>>, <<i>>, <<<<"C", "u", "t">>>>, <<>>, <<>>,
                             <<>>, <<>>, FALSE)

\* The `name` field of the policy document with id i
PolicyName(i) == IF i % 2 = 1 THEN <<"Komeito">> ELSE <<>>

PolicyIds == 1 .. MaxPolicies

\* lastDocumentId values: "" (falsy), the ids of the collection, an id that
\* no document has
EmptyId == 0
CursorIds == 0 .. (MaxPolicies + 1)

\* The switch on sortMethod (lines 149-165): the field and the direction
orderByField(sortMethod) ==
    IF sortMethod = "opposeDesc" THEN "NonSupportRate" ELSE "SupportRate"

orderDirection(sortMethod) ==
    IF sortMethod = "supportAsc" THEN "asc" ELSE "desc"

\* The value of the order-by field in document i (<<>> when it has none)
OrderValue(i, field) ==
    IF field = "NonSupportRate" THEN PolicyDoc(i).NonSupportRate
    ELSE PolicyDoc(i).SupportRate

\* Document a comes before document b in the order of the query: by the
\* field, then by document id, both in the direction of the orderBy
Before(a, b, field, dir) ==
    LET va == OrderValue(a, field)[1]
        vb == OrderValue(b, field)[1]
        less == va < vb \/ (va = vb /\ a < b)
        more == va > vb \/ (va = vb /\ a > b)
    IN IF dir = "asc" THEN less ELSE more

\* where("AffectedFields", "array-contains", categoryFilter)
InCategory(i, categoryFilter) ==
    /\ PolicyDoc(i).AffectedFields # <<>>
    /\ \E k \in 1 .. Len(PolicyDoc(i).AffectedFields[1]) :
          PolicyDoc(i).AffectedFields[1][k] = categoryFilter

\* The documents the query selects, before limit: the where and orderBy
\* conditions of lines 170-184 and the startAfter of line 192
Selected(db, req, cursor) ==
    LET field == orderByField(req.sortMethod)
        dir == orderDirection(req.sortMethod)
    IN {i \in db :
          /\ OrderValue(i, field) # <<>>
          /\ req.categoryFilter # "all" => InCategory(i, req.categoryFilter)
          /\ req.partyFilter # "all" => PolicyName(i) = <<req.partyFilter>>
          /\ cursor # <<>> => Before(cursor[1], i, field, dir)}

\* The documents of a set in the order of the query
RECURSIVE Ordered(_, _, _)
Ordered(S, field, dir) ==
    IF S = {} THEN <<>>
    ELSE LET m == CHOOSE x \in S : \A y \in S \ {x} : Before(x, y, field, dir)
         IN <<m>> \o Ordered(S \ {m}, field, dir)

\* getDocs(query(policiesRef, ...conditions)): the ids of querySnapshot.docs
RunQuery(db, req, cursor) ==
    LET all == Ordered(Selected(db, req, cursor), orderByField(req.sortMethod),
                       orderDirection(req.sortMethod))
    IN SubSeq(all, 1, IF Len(all) < req.limitCount THEN Len(all)
                      ELSE req.limitCount)

\* Lines 191-197: the startAfter constraint of a cursor document that was read
CursorConstraintAlways(db, id) == <<id>>
CursorConstraint(db, id) == IF id \in db THEN <<id>> ELSE <<>>

\* query() rejects a startAfter document that lacks the order-by field
BadCursor(req, cursor) ==
    /\ cursor # <<>>
    /\ OrderValue(cursor[1], orderByField(req.sortMethod)) = <<>>

\* Lines 215-222: the client-side search
SearchFilter(policies, searchTerm) ==
    IF TrimmedNonEmpty(searchTerm)
    THEN SelectSeq(policies,
            LAMBDA policy :
                \/ includes(toLowerCase(policy.title), toLowerCase(searchTerm))
                \/ includes(toLowerCase(policy.description),
                            toLowerCase(searchTerm)))
    ELSE policies

\* Lines 211-232: the page built from the documents of the snapshot; rnds[k]
\* is what Math.random() yields while document k is converted
BuildPage(raw, req, rnds) ==
    LET converted == [k \in 1 .. Len(raw) |->
                        convertToPolicyObject(raw[k], PolicyDoc(raw[k]), rnds[k])]
        policies == SearchFilter(converted, req.searchTerm)
    IN [policies |-> policies,
        lastDocumentId |-> IF raw = <<>> THEN <<>> ELSE <<raw[Len(raw)]>>,
        hasMore |-> (Len(policies) = req.limitCount)]

\* The outer catch (lines 233-236): the error is logged and thrown again
QueryErrorSwallowed ==
    [pc |-> "returned",
     result |-> <<[policies |-> <<>>, lastDocumentId |-> <<>>, hasMore |-> FALSE]>>]
QueryError == [pc |-> "thrown", result |-> <<>>]

SortMethods == {"supportDesc", "supportAsc", "opposeDesc", "newest"}
SearchTerms == {<<>>, <<" ">>, <<"T", "A">>, <<"c", "u", "t">>}

Requests ==
    [categoryFilter : {"all", "keizai"},
     partyFilter : {"all", "Komeito"},
     sortMethod : SortMethods,
     searchTerm : SearchTerms,
     lastDocumentId : {<<>>} \cup {<<i>> : i \in CursorIds},
     limitCount : 1 .. MaxLimit]

NoRequest ==
    [categoryFilter |-> "all", partyFilter |-> "all", sortMethod |-> "supportDesc",
     searchTerm |-> <<>>, lastDocumentId |-> <<>>, limitCount |-> 5]

FetchIdle ==
    /\ fpDb = {}
    /\ fpReq = NoRequest
    /\ fpPc = "idle"
    /\ fpStartAfter = <<>>
    /\ fpRaw = <<>>
    /\ fpResult = <<>>
    /\ fpFailed = {}

FetchInit ==
    /\ fpDb \in SUBSET PolicyIds
    /\ fpReq = NoRequest
    /\ fpPc = "idle"
    /\ fpStartAfter = <<>>
    /\ fpRaw = <<>>
    /\ fpResult = <<>>
    /\ fpFailed = {}

notFetchVars == <<partyVars, convertVars, routeVars>>

\* The call, up to its first await: the getDoc of the cursor document when
\* lastDocumentId is truthy, the getDocs of the query otherwise
FetchCall(req) ==
    /\ fpPc = "idle"
    /\ fpReq' = req
    /\ fpPc' = IF req.lastDocumentId # <<>> /\ req.lastDocumentId # <<EmptyId>>
               THEN "cursor" ELSE "query"
    /\ UNCHANGED <<fpDb, fpStartAfter, fpRaw, fpResult, fpFailed>>
    /\ UNCHANGED notFetchVars

\* getDoc resolves: startAfter is added when the document exists, a warning
\* is logged when it does not; then the query is built and sent
CursorRead ==
    /\ fpPc = "cursor"
    /\ LET cursor == CursorConstraint(fpDb, fpReq.lastDocumentId[1])
       IN /\ fpStartAfter' = cursor
          /\ IF BadCursor(fpReq, cursor)
             THEN /\ fpPc' = QueryError.pc
                  /\ fpResult' = QueryError.result
             ELSE /\ fpPc' = "query"
                  /\ UNCHANGED fpResult
    /\ UNCHANGED <<fpDb, fpReq, fpRaw, fpFailed>>
    /\ UNCHANGED notFetchVars

\* getDoc rejects: the inner catch logs the error and the call goes on
CursorReadFail ==
    /\ fpPc = "cursor"
    /\ fpFailed' = fpFailed \cup {"cursor"}
    /\ fpPc' = "query"
    /\ UNCHANGED <<fpDb, fpReq, fpStartAfter, fpRaw, fpResult>>
    /\ UNCHANGED notFetchVars

\* getDocs resolves: the page is built and returned
QueryOk(rnds) ==
    /\ fpPc = "query"
    /\ LET raw == RunQuery(fpDb, fpReq, fpStartAfter)
       IN /\ fpRaw' = raw
          /\ fpResult' = <<BuildPage(raw, fpReq, rnds)>>
    /\ fpPc' = "returned"
    /\ UNCHANGED <<fpDb, fpReq, fpStartAfter, fpFailed>>
    /\ UNCHANGED notFetchVars

\* getDocs rejects: the outer catch logs the error and throws it again
QueryFail ==
    /\ fpPc = "query"
    /\ fpFailed' = fpFailed \cup {"query"}
    /\ fpPc' = QueryError.pc
    /\ fpResult' = QueryError.result
    /\ UNCHANGED <<fpDb, fpReq, fpStartAfter, fpRaw>>
    /\ UNCHANGED notFetchVars

FetchNext ==
    \/ \E req \in Requests : FetchCall(req)
    \/ CursorRead
    \/ CursorReadFail
    \/ \E rnds \in [1 .. MaxLimit -> RandomIndexes] : QueryOk(rnds)
    \/ QueryFail

----------------------------------------------------------------------------
(* layout/AppContent.tsx: the route table *)

\* A location is the sequence of the segments of its path: "/" is <<>>
Segments == {"admin", "login", "party", "123", "x"}

RECURSIVE PathsOfLength(_)
PathsOfLength(n) ==
    IF n = 0 THEN {<<>>}
    ELSE {Append(p, seg) : p \in PathsOfLength(n - 1), seg \in Segments}

Paths == UNION {PathsOfLength(n) : n \in 0 .. MaxSegments}

RootPath == <<>>
LoginPath == <<"admin", "login">>

\* <Routes>: the route whose path pattern matches the location
MatchRoute(path) ==
    CASE path = <<>> -> "root"
      [] path = <<"admin", "login">> -> "login"
      [] path = <<"admin">> -> "admin"
      [] Len(path) >= 3 /\ SubSeq(path, 1, 2) = <<"admin", "party">> -> "party"
      [] OTHER -> "catchAll"

\* The `to` of the <Navigate> elements of the table
NavigateTargetLoop(route) ==
    IF route = "catchAll" THEN <<"home">> ELSE LoginPath
NavigateTarget(route) ==
    IF route = "catchAll" THEN RootPath ELSE LoginPath

\* ProtectedAdminRoute: its children for an authenticated visitor, a redirect
\* to the login page for any other
ProtectedAdminRoute(auth, children) ==
    IF auth THEN [kind |-> "render", view |-> children, to |-> <<>>]
    ELSE [kind |-> "navigate", view |-> "none", to |-> LoginPath]

\* The element of the matching route
RouteElement(path, auth) ==
    LET route == MatchRoute(path)
    IN CASE route = "login" ->
              [kind |-> "render", view |-> "LoginPage", to |-> <<>>]
         [] route = "party" -> ProtectedAdminRoute(auth, "PartyAdminLayout")
         [] OTHER ->
              [kind |-> "navigate", view |-> "none", to |-> NavigateTarget(route)]

Location == rtTrail[Len(rtTrail)]

RouteIdle ==
    /\ rtAuth = FALSE
    /\ rtTrail = <<RootPath>>
    /\ rtView = "pending"

RouteInit == RouteIdle

notRouteVars == <<partyVars, convertVars, fetchVars>>

\* The visitor enters a path in the address bar
Visit(path, auth) ==
    /\ rtAuth' = auth
    /\ rtTrail' = <<path>>
    /\ rtView' = "pending"
    /\ UNCHANGED notRouteVars

\* The matching route's element is a <Navigate>: the location changes
Redirect ==
    /\ rtView = "pending"
    /\ Len(rtTrail) < MaxHops
    /\ RouteElement(Location, rtAuth).kind = "navigate"
    /\ rtTrail' = Append(rtTrail, RouteElement(Location, rtAuth).to)
    /\ UNCHANGED <<rtAuth, rtView>>
    /\ UNCHANGED notRouteVars

\* The matching route's element is a page: it is rendered
Render ==
    /\ rtView = "pending"
    /\ RouteElement(Location, rtAuth).kind = "render"
    /\ rtView' = RouteElement(Location, rtAuth).view
    /\ UNCHANGED <<rtAuth, rtTrail>>
    /\ UNCHANGED notRouteVars

RouteNext ==
    \/ \E path \in Paths, auth \in BOOLEAN : Visit(path, auth)
    \/ Redirect
    \/ Render

----------------------------------------------------------------------------
(* Specifications *)

Init == PartyInit /\ ConvertIdle /\ FetchIdle /\ RouteIdle

Next == PartyNext

Spec == Init /\ [][Next]_vars

ConvertSpecInit == ConvertInit /\ PartyInit /\ FetchIdle /\ RouteIdle

ConvertSpec == ConvertSpecInit /\ [][ConvertNext]_vars

FetchSpecInit == FetchInit /\ PartyInit /\ ConvertIdle /\ RouteIdle

FetchSpec == FetchSpecInit /\ [][FetchNext]_vars

RouteSpecInit == RouteInit /\ PartyInit /\ ConvertIdle /\ FetchIdle

RouteSpec == RouteSpecInit /\ [][RouteNext]_vars

----------------------------------------------------------------------------
(* Party cache: properties *)

Done(c) == calls[c].pc = "done"

\* Call d started after every earlier call had returned, and was a
\* processPartiesData call like the call before it
TwoInARow(c, d) ==
    /\ d = c + 1
    /\ calls[c].op = "process"
    /\ calls[d].op = "process"
    /\ calls[d].alone
    /\ Done(d)

\* C1 (as stated): starting from an empty cache, two processPartiesData calls
\* in a row perform exactly one fetch, the second being a cache hit that
\* returns the cached list, whatever the outcome of the first call (zero
\* documents and a failed fetch included).
C1_TwoCallsOneFetch ==
    TwoInARow(1, 2) =>
        /\ calls[1].fetched
        /\ ~calls[2].fetched
        /\ calls[2].outcome = "hit"

\* C1 (amended): when the first call's fetch succeeds, a snapshot of zero
\* documents included, the second call is a cache hit that issues no fetch and
\* returns the list the first call cached; when the first call's fetch fails
\* the cache is still unset and the second call fetches again.
C1_SecondCallHitsAfterSuccess ==
    TwoInARow(1, 2) =>
        /\ calls[1].fetched
        /\ calls[1].outcome = "ok" =>
              /\ ~calls[2].fetched
              /\ calls[2].outcome = "hit"
              /\ calls[2].res = calls[1].res
              /\ calls[2].seen = calls[1].seen
        /\ calls[1].outcome = "fail" =>
              /\ calls[2].fetched
              /\ calls[2].outcome \in {"ok", "fail"}

\* C1 witness: the first fetch returned zero documents and the second call hit
C1_Witness ==
    /\ TwoInARow(1, 2)
    /\ calls[1].outcome = "ok"
    /\ calls[1].res = <<>>
    /\ calls[2].outcome = "hit"
    /\ fetchCount = 1

\* No call before c had a fetch that succeeded
NoEarlierSuccess(c) == \A e \in CallIds : e < c => calls[e].outcome # "ok"

\* C4: a processPartiesData call whose fetch fails returns the empty list and
\* raises nothing, the failing step leaves the cache as it was, and with no
\* successful fetch so far the cache is still unset, so that the next call
\* fetches again instead of being served an empty list from the cache.
C4_FailedFetchSwallowed ==
    /\ [](\A c \in CallIds :
            (calls[c].op = "process" /\ calls[c].outcome = "fail") =>
                /\ Done(c)
                /\ calls[c].res = <<>>
                /\ ~calls[c].sawSet
                /\ \A d \in CallIds :
                      (d = c + 1 /\ calls[d].alone /\ calls[d].pc # "idle"
                         /\ NoEarlierSuccess(c)) =>
                          (~calls[d].sawSet /\ calls[d].fetched))
    /\ [][\A c \in CallIds :
            (calls[c].outcome # "fail" /\ calls'[c].outcome = "fail") =>
                cachedParties' = cachedParties]_vars

\* C4 witness: the first call failed and returned [], the cache is unset and
\* the next call has fetched again
C4_Witness ==
    /\ calls[1].op = "process"
    /\ calls[1].outcome = "fail"
    /\ calls[1].res = <<>>
    /\ calls[2].alone
    /\ calls[2].fetched
    /\ calls[2].outcome = "ok"
    /\ cachedParties # Null

\* The parties of a cache value (none when it is unset)
PartiesOf(cache) ==
    IF cache = Null THEN {} ELSE {cache[1][k] : k \in 1 .. Len(cache[1])}

\* C5: getPartyById(id) fetches when it starts with the cache unset, always
\* returns, and returns the party of the cache whose id is the argument, or
\* undefined when the cache has none (a cache still unset after a failed
\* fetch included); it never returns a party with another id.
C5_GetPartyById ==
    \A c \in CallIds :
        calls[c].op = "getById" =>
            /\ ~calls[c].sawSet => calls[c].fetched
            /\ calls[c].pc \in {"await", "resume", "done"}
            /\ Done(c) =>
                  /\ Len(calls[c].res) <= 1
                  /\ \A k \in 1 .. Len(calls[c].res) :
                        /\ calls[c].res[k].id = calls[c].id
                        /\ calls[c].res[k] \in PartiesOf(calls[c].seen)
                  /\ calls[c].res = <<>> =>
                        \A p \in PartiesOf(calls[c].seen) : p.id # calls[c].id

\* C5 witness: after a call whose fetch failed, a lookup populated the cache
\* and found its party; and a lookup whose own fetch failed returned undefined
C5_Witness ==
    /\ calls[1].op = "getById"
    /\ calls[1].outcome = "fail"
    /\ Done(1)
    /\ calls[1].res = <<>>
    /\ calls[1].seen = Null
    /\ calls[2].op = "getById"
    /\ calls[2].outcome = "ok"
    /\ Done(2)
    /\ calls[2].res # <<>>

\* C10: calls that start while the cache is unset may each fetch, and the
\* race is benign: a cache that is set is never unset again, a call that
\* starts with the cache set fetches nothing, and a set cache is the whole
\* transformed list of the last fetch that succeeded.
C10_BenignRace ==
    /\ [](/\ \A c \in CallIds : calls[c].sawSet => ~calls[c].fetched
          /\ \A c \in CallIds :
                (calls[c].pc # "idle" /\ ~calls[c].sawSet) => calls[c].fetched
          /\ cachedParties # Null =>
                cachedParties = <<TransformSnapshot(lastFetched)>>
          /\ cachedParties = Null =>
                \A c \in CallIds : calls[c].outcome # "ok")
    /\ [][cachedParties # Null => cachedParties' # Null]_vars

\* C10 witness: two calls that both started with the cache unset have both
\* fetched, with different snapshots, and the cache holds the later one
C10_Witness ==
    /\ fetchCount > 1
    /\ ~calls[1].sawSet
    /\ ~calls[2].sawSet
    /\ ~calls[2].alone
    /\ calls[1].outcome = "ok"
    /\ calls[2].outcome = "ok"
    /\ calls[1].op = "process"
    /\ calls[2].op = "process"
    /\ calls[1].res # calls[2].res
    /\ cachedParties = <<calls[1].res>>

----------------------------------------------------------------------------
(* convertToPolicyObject: properties *)

Converted == cvPolicy # <<>>

\* C6: whenever the computed totalVotes is greater than 0, the normalized
\* supportRate and opposeRate of the converted Policy sum to exactly 100.
C6_RatesSumTo100 ==
    (Converted /\ cvPolicy[1].totalVotes > 0) =>
        cvPolicy[1].supportRate + cvPolicy[1].opposeRate = 100

\* A present text field that holds something ("" is read here, in the claim's
\* favour, as holding nothing)
Filled(f) == IF f = <<>> THEN FALSE ELSE f[1] # <<>>
FilledStr(f) == IF f = <<>> THEN FALSE ELSE f[1] # ""

\* C8: a missing optional field gets its stated default, and a field that is
\* present is used as it is, not replaced by its default (a present
\* SupportRate or NonSupportRate of 0 included: the votes counted are the
\* document's).
C8_DefaultsAndPassThrough ==
    Converted =>
        LET d == cvDoc
            p == cvPolicy[1]
        IN /\ d.Title = <<>> => p.title = UnknownTitle
           /\ Filled(d.Title) => p.title = d.Title[1]
           /\ d.Description = <<>> => p.description = NoDescription
           /\ Filled(d.Description) => p.description = d.Description[1]
           /\ d.Status = <<>> => p.status = UnderDeliberation
           /\ FilledStr(d.Status) => p.status = d.Status[1]
           /\ d.AffectedFields = <<>> =>
                 (p.category = OtherCategory /\ p.affectedFields = <<>>)
           /\ d.AffectedFields # <<>> => p.affectedFields = d.AffectedFields[1]
           /\ Filled(d.AffectedFields) =>
                 (d.AffectedFields[1][1] # "" =>
                     p.category = d.AffectedFields[1][1])
           /\ d.PoliticalParties = <<>> =>
                 p.proposingParty = [name |-> UnknownParty, color |-> "#808080"]
           /\ (d.SupportRate = <<>> /\ d.NonSupportRate = <<>>) =>
                 (p.supportRate = 50 /\ p.opposeRate = 50)
           /\ (d.SupportRate # <<>> /\ d.NonSupportRate # <<>>) =>
                 p.totalVotes = d.SupportRate[1] + d.NonSupportRate[1]

----------------------------------------------------------------------------
(* fetchPoliciesWithFilterAndSort: properties *)

Returned == fpPc = "returned"
Thrown == fpPc = "thrown"

\* The call was given a cursor id that is looked up (a truthy lastDocumentId)
CursorGiven ==
    fpReq.lastDocumentId # <<>> /\ fpReq.lastDocumentId # <<EmptyId>>

\* The ids of the policies of a page
PageIds(page) == [k \in 1 .. Len(page.policies) |-> page.policies[k].id]

\* The ids the client-side search keeps of a list of raw documents
KeptIds(raw, req) ==
    PageIds(BuildPage(raw, req, [k \in 1 .. Len(raw) |-> 0]))

\* C2: the returned hasMore is true if and only if the query returned exactly
\* limitCount raw documents, however many of them the search filter keeps.
C2_HasMoreCountsRawDocuments ==
    Returned => (fpResult[1].hasMore <=> (Len(fpRaw) = fpReq.limitCount))

\* C3 (as stated): whenever a database read of the call fails, the cursor
\* lookup or the main query, the call ends in an error and returns no page.
C3_AnyReadErrorRaised ==
    (fpFailed # {} /\ fpPc \in {"returned", "thrown"}) =>
        (Thrown /\ fpResult = <<>>)

\* C3 (amended): a failure of the main query ends the call in an error with
\* no page; a failure of the cursor lookup alone is logged and swallowed, and
\* the call goes on to run the query without a startAfter constraint and
\* returns its page.
C3_QueryErrorRaisedCursorErrorSwallowed ==
    /\ "query" \in fpFailed => (Thrown /\ fpResult = <<>>)
    /\ "cursor" \in fpFailed =>
          /\ fpStartAfter = <<>>
          /\ fpPc \in {"query", "returned", "thrown"}
          /\ Thrown => "query" \in fpFailed
          /\ Returned =>
                /\ fpRaw = RunQuery(fpDb, fpReq, <<>>)
                /\ PageIds(fpResult[1]) = KeptIds(fpRaw, fpReq)

\* C3 witness: the cursor lookup failed, the query ran without a cursor and
\* then failed too, and the call has thrown
C3_Witness ==
    /\ fpFailed = {"cursor", "query"}
    /\ Thrown
    /\ fpResult = <<>>
    /\ fpReq.lastDocumentId[1] \in fpDb

\* The cursor id of the call names no document of the collection
CursorDocMissing == CursorGiven /\ fpReq.lastDocumentId[1] \notin fpDb

\* C9: with a lastDocumentId whose document does not exist the call does
\* not fail on that account; it runs the query with no startAfter constraint,
\* returns the page a call without a cursor returns, and the lastDocumentId
\* it returns is the id of the last raw document of that page.
C9_MissingCursorGivesFirstPage ==
    (CursorDocMissing /\ "cursor" \notin fpFailed) =>
        /\ fpStartAfter = <<>>
        /\ Thrown => "query" \in fpFailed
        /\ Returned =>
              /\ fpRaw = RunQuery(fpDb, [fpReq EXCEPT !.lastDocumentId = <<>>], <<>>)
              /\ PageIds(fpResult[1]) = KeptIds(fpRaw, fpReq)
              /\ fpResult[1].hasMore =
                    (Len(KeptIds(fpRaw, fpReq)) = fpReq.limitCount)
              /\ fpRaw # <<>> => fpResult[1].lastDocumentId = <<fpRaw[Len(fpRaw)]>>
              /\ fpRaw = <<>> => fpResult[1].lastDocumentId = <<>>

\* C9 witness: a call with the id of no document has returned a page of two
\* raw documents in a collection where a real cursor would have cut the page
C9_Witness ==
    /\ CursorDocMissing
    /\ fpFailed = {}
    /\ Returned
    /\ Len(fpRaw) = 2
    /\ fpResult[1].lastDocumentId = <<fpRaw[2]>>
    /\ fpDb = PolicyIds

----------------------------------------------------------------------------
(* Route table: properties *)

StartRoute == MatchRoute(rtTrail[1])

\* C7: from "/", "/admin" or a path no other route matches, the redirects
\* end at /admin/login, rendering the login page, after at most two hops and
\* without passing a location twice; and a visit to /admin/party/<id>/...
\* without authentication ends at the login page and never renders the admin
\* layout.
C7_RedirectsEndAtLogin ==
    /\ StartRoute \in {"root", "admin", "catchAll"} =>
          /\ Len(rtTrail) <= 3
          /\ \A a, b \in 1 .. Len(rtTrail) : a # b => rtTrail[a] # rtTrail[b]
          /\ rtView \in {"pending", "LoginPage"}
          /\ rtView = "LoginPage" => Location = LoginPath
          /\ (rtView = "pending" /\ Location = LoginPath) =>
                RouteElement(Location, rtAuth).kind = "render"
          /\ Location # LoginPath => rtView = "pending"
    /\ (StartRoute = "party" /\ ~rtAuth) =>
          /\ Len(rtTrail) <= 2
          /\ rtView \in {"pending", "LoginPage"}
          /\ rtView = "LoginPage" => Location = LoginPath
          /\ Len(rtTrail) = 2 => Location = LoginPath

\* C7 witness: an unrecognized path went to "/", then to /admin/login, where
\* the login page is rendered
C7_Witness ==
    /\ rtTrail = <<<<"x">>, RootPath, LoginPath>>
    /\ rtView = "LoginPage"

====
